---------------------------- MODULE Spec2Model ----------------------------
(***************************************************************************)
(* A model of bbm.py: the carrier lookup (extract_carrier_name), the       *)
(* pricing fetch with its retry loop (scrape_carrier_data), the scrape     *)
(* over the source document (scrape) and the report writer (write_to_csv). *)
(*                                                                         *)
(* Python values are records [t, v, s, neg, m, e]: t is the Python type,   *)
(* v the value of an int, s the text of a str, and (neg, m, e) the sign,   *)
(* the 53-bit significand and the exponent of a float.  Floats are IEEE    *)
(* 754 doubles: float(), the JSON decoder, *, + and - round to the nearest *)
(* double, ties to even, str() gives the shortest numeral that reads back  *)
(* and the format .2f rounds the exact binary value.  Outside the model:   *)
(* floats of magnitude 2^53 and more, subnormals, inf and nan, and ints of *)
(* 2^31 and more.  The str values of a payload are over the characters     *)
(* 0-9 . + - _ blank a b c, on which float() is computed.                  *)
(* URLs and phone names are sequences of characters, so that lower(), the  *)
(* substring test and replace() are computed; their characters are ASCII   *)
(* and the two other code points whose lower() contains an ASCII letter,   *)
(* U+212A and U+0130, each written as one element.                         *)
(***************************************************************************)
EXTENDS Integers, Sequences, FiniteSets, TLC

VARIABLES
    pc,             \* position of the running operation
    url,            \* the url argument of the current call
    carrier_name,   \* result of extract_carrier_name / local of the fetch
    attempt,        \* local `attempt` of scrape_carrier_data
    total_price,    \* local `total_price` (Unbound until first assigned)
    price_after_gc, \* local `price_after_gc` (Unbound until first assigned)
    response,       \* what session.get produced in the latest attempt
    outcomes,       \* history: how each session.get so far ended
    sleeps,         \* history: the argument of every time.sleep call so far
    result,         \* the Carrier returned by scrape_carrier_data
    phones,         \* local `phones` of scrape / argument of write_to_csv
    carriers,       \* local `carriers` of scrape (current phone node)
    node,           \* index of the phone node scrape is in (0 before the first)
    fetched,        \* number of url nodes scrape has consumed
    rows            \* the rows handed to writer.writerow, header excluded

vars == <<pc, url, carrier_name, attempt, total_price, price_after_gc,
          response, outcomes, sleeps, result, phones, carriers, node,
          fetched, rows>>

fetchVars == <<attempt, total_price, price_after_gc, response, outcomes,
               sleeps, result>>
csvVars == <<phones, carriers, node, fetched, rows>>

-----------------------------------------------------------------------------
(* Bounds *)

MaxFrags == 2      \* fragments per generated URL in the lookup check
MaxUrls == 3       \* url nodes in a source document
MaxPhones == 2     \* phone nodes in a source document

-----------------------------------------------------------------------------
(* Naturals of any size, for the significands of the floats: a sequence   *)
(* of limbs below Base, the least significant first, with no zero limb at  *)
(* the top; <<>> is 0.                                                     *)

LimbBits == 15
Base == 32768

Min(a, b) == IF a < b THEN a ELSE b
Max(a, b) == IF a < b THEN b ELSE a
Abs(n) == IF n < 0 THEN 0 - n ELSE n

RECURSIVE BNorm(_)
BNorm(a) ==
    IF a # <<>> /\ a[Len(a)] = 0 THEN BNorm(SubSeq(a, 1, Len(a) - 1)) ELSE a

\* the natural n < 2^31
BFromInt(n) == BNorm(<<n % Base, (n \div Base) % Base, n \div (Base * Base)>>)

\* a * k + c, for 0 <= k, c < Base
RECURSIVE BMulAdd(_, _, _)
BMulAdd(a, k, c) ==
    IF a = <<>> THEN (IF c = 0 THEN <<>> ELSE <<c>>)
    ELSE <<(Head(a) * k + c) % Base>>
            \o BMulAdd(Tail(a), k, (Head(a) * k + c) \div Base)

BMul(a, k) == BNorm(BMulAdd(a, k, 0))

\* quotient (not normalised) and remainder of a by k, for 0 < k < Base
RECURSIVE BDiv(_, _)
BDiv(a, k) ==
    IF a = <<>> THEN [q |-> <<>>, r |-> 0]
    ELSE LET hi == BDiv(Tail(a), k)
             cur == hi.r * Base + Head(a)
         IN  [q |-> <<cur \div k>> \o hi.q, r |-> cur % k]

RECURSIVE BAdd(_, _, _)
BAdd(a, b, c) ==
    IF a = <<>> /\ b = <<>> THEN (IF c = 0 THEN <<>> ELSE <<c>>)
    ELSE LET x == IF a = <<>> THEN 0 ELSE Head(a)
             y == IF b = <<>> THEN 0 ELSE Head(b)
         IN  <<(x + y + c) % Base>>
                \o BAdd(IF a = <<>> THEN a ELSE Tail(a),
                        IF b = <<>> THEN b ELSE Tail(b), (x + y + c) \div Base)

\* a - b - c for a >= b + c, not normalised
RECURSIVE BSubFrom(_, _, _)
BSubFrom(a, b, c) ==
    IF a = <<>> THEN <<>>
    ELSE LET d == Head(a) - (IF b = <<>> THEN 0 ELSE Head(b)) - c
         IN  <<IF d < 0 THEN d + Base ELSE d>>
                \o BSubFrom(Tail(a), IF b = <<>> THEN b ELSE Tail(b),
                            IF d < 0 THEN 1 ELSE 0)

BSub(a, b) == BNorm(BSubFrom(a, b, 0))

RECURSIVE BLessAt(_, _, _)
BLessAt(a, b, i) ==
    IF i = 0 THEN FALSE
    ELSE IF a[i] # b[i] THEN a[i] < b[i] ELSE BLessAt(a, b, i - 1)

BLess(a, b) ==
    IF Len(a) # Len(b) THEN Len(a) < Len(b) ELSE BLessAt(a, b, Len(a))

RECURSIVE Bits(_)
Bits(n) == IF n = 0 THEN 0 ELSE 1 + Bits(n \div 2)

\* the number of bits of a
BLen(a) == IF a = <<>> THEN 0 ELSE (Len(a) - 1) * LimbBits + Bits(a[Len(a)])

\* a * 2^n
BShl(a, n) ==
    IF a = <<>> THEN <<>>
    ELSE [i \in 1..(n \div LimbBits) |-> 0] \o BMul(a, 2 ^ (n % LimbBits))

\* a \div 2^n, and whether a non-zero bit was dropped
BShr(a, n) ==
    LET w == n \div LimbBits
        d == BDiv(IF w >= Len(a) THEN <<>> ELSE SubSeq(a, w + 1, Len(a)),
                  2 ^ (n % LimbBits))
    IN  [q |-> BNorm(d.q),
         lost |-> d.r # 0 \/ \E i \in 1..Min(w, Len(a)) : a[i] # 0]

\* a % 2^n
BLow(a, n) ==
    LET w == n \div LimbBits
    IN  IF w >= Len(a) THEN a
        ELSE BNorm(SubSeq(a, 1, w) \o <<a[w + 1] % (2 ^ (n % LimbBits))>>)

\* a rounded to an integer from its double 2a + (the half), ties to even:
\* h is BDiv(2a + half, 2) and lost says that more was dropped below
HalfEven(h, lost) ==
    LET q == BNorm(h.q)
    IN  IF h.r = 1 /\ (lost \/ (q # <<>> /\ q[1] % 2 = 1))
        THEN BMulAdd(q, 1, 1) ELSE q

-----------------------------------------------------------------------------
(* Python values *)

\* v is the value of an int, s the text of a str; a float is
\* (-1)^neg * m * 2^e with 2^52 <= m < 2^53, or m = 0 and e = 0
Val(t, v, s) ==
    [t |-> t, v |-> v, s |-> s, neg |-> FALSE, m |-> <<>>, e |-> 0]
Flt(neg, m, e) ==
    [t |-> "float", v |-> 0, s |-> "", neg |-> neg, m |-> m, e |-> e]

\* the significand m * 2^e after rounding: 2^53 is 2^52 with the next exponent
Carried(neg, m, e) ==
    IF BLen(m) > 53 THEN Flt(neg, BNorm(BDiv(m, 2).q), e + 1) ELSE Flt(neg, m, e)

\* t is BShr of a natural down to 54 bits: the significand and the half
RoundHalf(t, inexact) == HalfEven(BDiv(t.q, 2), t.lost \/ inexact)

\* len is the number of bits of q
RoundLen(neg, q, inexact, e, len) ==
    IF q = <<>> THEN Flt(neg, <<>>, 0)
    ELSE IF len <= 53 THEN Flt(neg, BShl(q, 53 - len), e - (53 - len))
    ELSE Carried(neg, RoundHalf(BShr(q, len - 54), inexact), e + len - 53)

\* The float nearest to q * 2^e, ties to even (IEEE 754 binary64); inexact
\* says that q is the floor of a value that is not a whole number, and q
\* then has more than 54 bits
Round(neg, q, inexact, e) == RoundLen(neg, q, inexact, e, BLen(q))

\* q \div 10^d, and whether a remainder was dropped
RECURSIVE DivPow10(_, _, _)
DivPow10(q, d, lost) ==
    IF d = 0 THEN [q |-> q, lost |-> lost]
    ELSE LET x == BDiv(q, 10)
         IN  DivPow10(BNorm(x.q), d - 1, lost \/ x.r # 0)

\* x is the floor of n * 2^s / 10^d
Scaled(neg, x, s) == Round(neg, x.q, x.lost, 0 - s)

ScaleBy(neg, n, d, s) == Scaled(neg, DivPow10(BShl(n, s), d, FALSE), s)

\* The float nearest to n / 10^d: what float() and the JSON decoder make of
\* a decimal numeral with d decimals; the quotient is taken with enough
\* bits below the significand for the rounding
FromDecimal(neg, n, d) == ScaleBy(neg, n, d, Max(0, 56 + 4 * d - BLen(n)))

PStr(s) == Val("str", 0, s)
PInt(n) == Val("int", n, "")
\* the JSON number with d decimals whose digits make the integer n
PDec(n, d) == FromDecimal(n < 0, BFromInt(Abs(n)), d)
\* the JSON number of h hundredths: PFloat(3006) is 30.06
PFloat(h) == PDec(h, 2)
NegZero == Flt(TRUE, <<>>, 0)
None == Val("None", 0, "")
\* a name with no binding yet (reading it raises UnboundLocalError)
Unbound == Val("unbound", 0, "")
\* a key absent from a JSON object (reading it raises KeyError)
Missing == Val("missing", 0, "")
\* the evaluation of an expression raised
Raised == Val("raised", 0, "")

IsNum(x) == x.t \in {"int", "float"}
IsFloat(x) == x.t = "float"
Failed(x) == x.t \in {"raised", "missing", "unbound"}
IsZero(x) == IF x.t = "float" THEN x.m = <<>> ELSE x.v = 0

RECURSIVE Repeat(_, _)
Repeat(s, n) == IF n = 0 THEN "" ELSE s \o Repeat(s, n - 1)

\* float(n) of an int
FromInt(x) == Round(x.v < 0, BFromInt(Abs(x.v)), FALSE, 0)

\* the sum of the signed magnitudes x * 2^e and y * 2^e
AddAligned(xneg, x, yneg, y, e) ==
    Round(IF xneg = yneg THEN xneg
          ELSE IF x = y THEN FALSE
          ELSE IF BLess(x, y) THEN yneg ELSE xneg,
          IF xneg = yneg THEN BAdd(x, y, 0)
          ELSE IF BLess(x, y) THEN BSub(y, x) ELSE BSub(x, y),
          FALSE, e)

\* e is the smaller exponent of a and b
AddAt(a, b, e) ==
    AddAligned(a.neg, BShl(a.m, a.e - e), b.neg, BShl(b.m, b.e - e), e)

\* a + b on floats
FAdd(a, b) == AddAt(a, b, Min(a.e, b.e))

FNeg(a) == Flt(~a.neg, a.m, a.e)

Digit == <<"0", "1", "2", "3", "4", "5", "6", "7", "8", "9">>

IsDigit(c) == \E d \in 1..10 : Digit[d] = c
DigitVal(c) == (CHOOSE d \in 1..10 : Digit[d] = c) - 1

\* str.strip() of the blanks at both ends
RECURSIVE StripLeft(_)
StripLeft(s) == IF s # "" /\ Head(s) = " " THEN StripLeft(Tail(s)) ELSE s
RECURSIVE StripRight(_)
StripRight(s) ==
    IF s # "" /\ SubSeq(s, Len(s), Len(s)) = " "
    THEN StripRight(SubSeq(s, 1, Len(s) - 1)) ELSE s

\* position of the first "." of s, 0 when there is none
RECURSIVE DotAt(_, _)
DotAt(s, i) ==
    IF i > Len(s) THEN 0
    ELSE IF SubSeq(s, i, i) = "." THEN i ELSE DotAt(s, i + 1)

\* digits separated by single underscores, as float() accepts them
RECURSIVE DigitPart(_, _)
DigitPart(s, afterDigit) ==
    IF s = "" THEN afterDigit
    ELSE IF IsDigit(Head(s)) THEN DigitPart(Tail(s), TRUE)
    ELSE Head(s) = "_" /\ afterDigit /\ Tail(s) # "" /\ IsDigit(Head(Tail(s)))
         /\ DigitPart(Tail(s), FALSE)

\* the digits of s without the underscores
RECURSIVE Digits(_)
Digits(s) ==
    IF s = "" THEN <<>>
    ELSE IF Head(s) = "_" THEN Digits(Tail(s))
    ELSE <<DigitVal(Head(s))>> \o Digits(Tail(s))

\* the natural written by the digits ds after acc
RECURSIVE NatOf(_, _)
NatOf(ds, acc) ==
    IF ds = <<>> THEN acc ELSE NatOf(Tail(ds), BMulAdd(acc, 10, Head(ds)))

\* the digits before and after the point
ParseParts(neg, whole, frac) ==
    IF /\ whole # "" \/ frac # ""
       /\ whole = "" \/ DigitPart(whole, FALSE)
       /\ frac = "" \/ DigitPart(frac, FALSE)
    THEN FromDecimal(neg, NatOf(Digits(whole) \o Digits(frac), <<>>),
                     Len(Digits(frac)))
    ELSE Raised

ParseBody(neg, body, dot) ==
    ParseParts(neg, IF dot = 0 THEN body ELSE SubSeq(body, 1, dot - 1),
               IF dot = 0 THEN "" ELSE SubSeq(body, dot + 1, Len(body)))

ParseSigned(neg, body) == ParseBody(neg, body, DotAt(body, 1))

ParseStripped(t) ==
    ParseSigned(t # "" /\ Head(t) = "-",
                IF t # "" /\ Head(t) \in {"+", "-"} THEN Tail(t) ELSE t)

\* float(s) for a str: blanks stripped, an optional sign, then digits with
\* an optional point; anything else raises ValueError
ParseFloat(s) == ParseStripped(StripRight(StripLeft(s)))

\* the float operand of + and -: an int is converted
AsFloat(x) == IF x.t = "float" THEN x ELSE FromInt(x)

\* float(x)
PyFloat(x) ==
    IF x.t = "float" THEN x
    ELSE IF x.t = "int" THEN FromInt(x)
    ELSE IF x.t = "str" THEN ParseFloat(x.s)
    ELSE Raised

\* a * n for an int literal n > 0
PyMulInt(a, n) ==
    IF Failed(a) THEN Raised
    ELSE IF a.t = "int" THEN PInt(a.v * n)
    ELSE IF a.t = "float" THEN Round(a.neg, BMul(a.m, n), FALSE, a.e)
    ELSE IF a.t = "str" THEN PStr(Repeat(a.s, n))
    ELSE Raised

\* a + b
PyAdd(a, b) ==
    IF Failed(a) \/ Failed(b) THEN Raised
    ELSE IF a.t = "int" /\ b.t = "int" THEN PInt(a.v + b.v)
    ELSE IF IsNum(a) /\ IsNum(b) THEN FAdd(AsFloat(a), AsFloat(b))
    ELSE IF a.t = "str" /\ b.t = "str" THEN PStr(a.s \o b.s)
    ELSE Raised

\* a - b
PySub(a, b) ==
    IF Failed(a) \/ Failed(b) THEN Raised
    ELSE IF a.t = "int" /\ b.t = "int" THEN PInt(a.v - b.v)
    ELSE IF IsNum(a) /\ IsNum(b) THEN FAdd(AsFloat(a), FNeg(AsFloat(b)))
    ELSE Raised

\* bool(x)
Truthy(x) ==
    CASE IsNum(x) -> ~IsZero(x)
      [] x.t = "str" -> x.s # ""
      [] OTHER -> FALSE

RECURSIVE NatStr(_)
NatStr(n) ==
    IF n < 10 THEN Digit[n + 1]
    ELSE NatStr(n \div 10) \o Digit[(n % 10) + 1]

\* the decimal digits of a, "" for 0
RECURSIVE BDigits(_)
BDigits(a) ==
    IF a = <<>> THEN ""
    ELSE LET x == BDiv(a, 10) IN BDigits(BNorm(x.q)) \o Digit[x.r + 1]

Sign(x) == IF x.neg \/ x.v < 0 THEN "-" ELSE ""

\* |x| * 100 rounded to a whole number, ties to even
Cents(x) ==
    IF x.e >= 0 THEN BShl(BMul(x.m, 100), x.e)
    ELSE RoundHalf(BShr(BMul(x.m, 100), (0 - x.e) - 1), FALSE)

\* the digits ds with a point before the last two
Point2(sign, ds) ==
    PStr(sign \o SubSeq(ds, 1, Len(ds) - 2) \o "."
              \o SubSeq(ds, Len(ds) - 1, Len(ds)))

\* at least one digit before the point
Fixed2(sign, ds) == Point2(sign, Repeat("0", Max(0, 3 - Len(ds))) \o ds)

\* f"{x:.2f}"
Fmt2f(x) ==
    IF ~IsNum(x) THEN Raised
    ELSE Fixed2(Sign(x), BDigits(Cents(AsFloat(x))))

RECURSIVE FracDigits(_, _, _, _, _)

\* the digit dg is out and rest / 2^k is left: low and high say that the
\* numeral ending in dg, in dg + 1, reads back as the float; when both do,
\* the nearer one is taken, the even digit on a tie
LastDigit(dg, rest, above, below, k, closed, low, high, down) ==
    IF ~low /\ ~high THEN <<dg>> \o FracDigits(rest, above, below, k, closed)
    ELSE IF low /\ (~high \/ down) THEN <<dg>>
    ELSE <<dg + 1>>

\* one is 2^k, sum is rest + above and twice is 2 * rest
Digit10(dg, rest, above, below, k, closed, one, sum, twice) ==
    LastDigit(dg, rest, above, below, k, closed,
              IF closed THEN ~BLess(below, rest) ELSE BLess(rest, below),
              IF closed THEN ~BLess(sum, one) ELSE BLess(one, sum),
              BLess(twice, one) \/ (twice = one /\ dg % 2 = 0))

\* q is the whole part of 10 * r / 2^k, the next digit
Rest10(q, rest, above, below, k, closed) ==
    Digit10(IF q = <<>> THEN 0 ELSE q[1], rest, above, below, k, closed,
            BShl(<<1>>, k), BAdd(rest, above, 0), BMul(rest, 2))

\* r10, above and below are ten times those of the digit before
Times10(r10, above, below, k, closed) ==
    Rest10(BShr(r10, k).q, BLow(r10, k), above, below, k, closed)

\* The digits after the point of the shortest numeral that reads back as
\* the float: r / 2^k is what is left of the fraction, above / 2^k and
\* below / 2^k are half the distances to the next floats, closed says that
\* the ends of that interval read back as the float too (even significand)
FracDigits(r, above, below, k, closed) ==
    Times10(BMul(r, 10), BMul(above, 10), BMul(below, 10), k, closed)

\* f / 2^k is the fraction of x; below a power of two the next float is
\* half as far as above
Fraction(x, f, k, pow2) ==
    IF f = <<>> THEN <<>>
    ELSE IF pow2 THEN FracDigits(BShl(f, 2), <<2>>, <<1>>, k + 2, x.m[1] % 2 = 0)
    ELSE FracDigits(BShl(f, 1), <<1>>, <<1>>, k + 1, x.m[1] % 2 = 0)

\* the whole part and the shortest fraction digits of the float x # 0
Shortest(x) ==
    IF x.e >= 0 THEN [whole |-> BShl(x.m, x.e), frac |-> <<>>]
    ELSE [whole |-> BShr(x.m, 0 - x.e).q,
          frac |-> Fraction(x, BLow(x.m, 0 - x.e), 0 - x.e,
                            x.m = BShl(<<1>>, 52))]

RECURSIVE DigitStr(_)
DigitStr(ds) == IF ds = <<>> THEN "" ELSE Digit[Head(ds) + 1] \o DigitStr(Tail(ds))

RECURSIVE LeadingZeros(_)
LeadingZeros(ds) ==
    IF ds # <<>> /\ Head(ds) = 0 THEN 1 + LeadingZeros(Tail(ds)) ELSE 0

\* the numeral of the digits sig with the exponent -n
Exponent(sig, n) ==
    Digit[Head(sig) + 1]
       \o (IF Len(sig) > 1 THEN "." \o DigitStr(Tail(sig)) ELSE "")
       \o "e-" \o (IF n < 10 THEN "0" ELSE "") \o NatStr(n)

\* the numeral of d, whose fraction starts with z zeros
Numeral(d, z) ==
    IF d.whole = <<>> /\ z >= 4
    THEN Exponent(SubSeq(d.frac, z + 1, Len(d.frac)), z + 1)
    ELSE (IF d.whole = <<>> THEN "0" ELSE BDigits(d.whole))
            \o "." \o (IF d.frac = <<>> THEN "0" ELSE DigitStr(d.frac))

\* d is the Shortest of the float
ShortestNumeral(d) == Numeral(d, LeadingZeros(d.frac))

\* repr(x) of a float: the shortest numeral that reads back as x, with an
\* exponent below 0.0001
FloatRepr(x) ==
    IF x.m = <<>> THEN Sign(x) \o "0.0"
    ELSE Sign(x) \o ShortestNumeral(Shortest(x))

\* str(x)
PyStr(x) ==
    CASE x.t = "str" -> x
      [] x.t = "None" -> PStr("None")
      [] x.t = "int" -> PStr(Sign(x) \o NatStr(Abs(x.v)))
      [] x.t = "float" -> PStr(FloatRepr(x))
      [] OTHER -> Raised

-----------------------------------------------------------------------------
(* extract_carrier_name *)

\* the A-Z part of str.lower()
AsciiLower(c) ==
    CASE c = "A" -> "a" [] c = "B" -> "b" [] c = "C" -> "c" [] c = "D" -> "d"
      [] c = "E" -> "e" [] c = "F" -> "f" [] c = "G" -> "g" [] c = "H" -> "h"
      [] c = "I" -> "i" [] c = "J" -> "j" [] c = "K" -> "k" [] c = "L" -> "l"
      [] c = "M" -> "m" [] c = "N" -> "n" [] c = "O" -> "o" [] c = "P" -> "p"
      [] c = "Q" -> "q" [] c = "R" -> "r" [] c = "S" -> "s" [] c = "T" -> "t"
      [] c = "U" -> "u" [] c = "V" -> "v" [] c = "W" -> "w" [] c = "X" -> "x"
      [] c = "Y" -> "y" [] c = "Z" -> "z" [] OTHER -> c

\* str.lower() of one character: the KELVIN SIGN becomes "k", the dotted
\* capital I becomes "i" followed by the combining dot U+0307
LowerChar(c) ==
    CASE c = "U+212A" -> <<"k">>
      [] c = "U+0130" -> <<"i", "U+0307">>
      [] OTHER -> <<AsciiLower(c)>>

\* the lookup without the call of lower()
LowerSkipped(u) == u

RECURSIVE LowerFrom(_, _)
LowerFrom(u, i) ==
    IF i > Len(u) THEN <<>> ELSE LowerChar(u[i]) \o LowerFrom(u, i + 1)

Lower(u) == LowerFrom(u, 1)

\* key in text
Contains(text, key) ==
    \E i \in 0..(Len(text) - Len(key)) :
        \A j \in 1..Len(key) : text[i + j] = key[j]

\* the dict `carriers`, in insertion (= iteration) order
CarrierKeys ==
    << <<"t", "e", "l", "u", "s">>,
       <<"k", "o", "o", "d", "o">>,
       <<"r", "o", "g", "e", "r", "s">>,
       <<"f", "i", "d", "o">>,
       <<"f", "r", "e", "e", "d", "o", "m", "-", "m", "o", "b", "i", "l", "e">>,
       <<"b", "e", "l", "l">>,
       <<"v", "i", "r", "g", "i", "n", "-", "p", "l", "u", "s">> >>

CarrierLabels ==
    <<"Telus", "Koodo", "Rogers", "Fido", "Freedom Mobile", "Bell",
      "Virgin Plus">>

RECURSIVE FirstMatch(_, _)
FirstMatch(u, k) ==
    IF k > Len(CarrierKeys) THEN "Unknown"
    ELSE IF Contains(Lower(u), CarrierKeys[k]) THEN CarrierLabels[k]
    ELSE FirstMatch(u, k + 1)

extract_carrier_name(u) == FirstMatch(u, 1)

-----------------------------------------------------------------------------
(* scrape_carrier_data *)

max_retries == 3
RetryDelay == 2
Months == 24

NA == PStr("N/A")

Offer(pgc, gc, tp, mp, dp, bp, bm, dr) ==
    [price_after_gc |-> pgc, gift_card |-> gc, total_price |-> tp,
     monthly_price |-> mp, down_payment |-> dp, bib_premium |-> bp,
     bib_monthly |-> bm, down_return |-> dr]

Carrier(name, link, offers) == [name |-> name, link |-> link, offers |-> offers]

\* the Offer of the exhausted-retries return
SentinelOffer == Offer(NA, PStr("0"), NA, NA, NA, NA, NA, NA)

\* a plan object of the pricing payload; Missing marks an absent key
Plan(type, monthly, down, gift, residual) ==
    [type |-> type, monthly |-> monthly, downPayment |-> down,
     giftCard |-> gift, residualValue |-> residual]

\* response_data[i - 1][key]: IndexError and KeyError both raise
Get(data, i, key) == IF i > Len(data) THEN Raised ELSE data[i][key]

\* what session.get produced: a transport exception, or a response with a
\* status code whose body is a JSON list (data) or not JSON at all
TransportError == [kind |-> "exception", status |-> 0, json |-> FALSE, data |-> <<>>]
Http(status) == [kind |-> "http", status |-> status, json |-> FALSE, data |-> <<>>]
Json(data) == [kind |-> "http", status |-> 200, json |-> TRUE, data |-> data]

\* the premium computed for every numeric monthly value
BibPremiumAnyNumber(tp, bib_monthly_price, bib_down_payment) ==
    IF IsNum(bib_monthly_price)
    THEN Fmt2f(PySub(PySub(tp, PyMulInt(PyFloat(bib_monthly_price), Months)),
                     PyFloat(bib_down_payment)))
    ELSE NA

\* bib_premium of lines 150-151
BibPremium(tp, bib_monthly_price, bib_down_payment) ==
    IF IsFloat(bib_monthly_price)
    THEN Fmt2f(PySub(PySub(tp, PyMulInt(PyFloat(bib_monthly_price), Months)),
                     PyFloat(bib_down_payment)))
    ELSE NA

\* the total without the down payment
TotalPriceNoDown(monthly_price, down_payment) ==
    PyMulInt(monthly_price, Months)

\* total_price of line 141
TotalPrice(monthly_price, down_payment) ==
    PyAdd(PyMulInt(monthly_price, Months), down_payment)

\* price_after_gc of line 142
PriceAfterGc(tp, gift_card) ==
    IF Truthy(gift_card) THEN PySub(tp, gift_card) ELSE tp

\* the status test taking every code below 400 as a success
BadStatusFrom400(resp) == resp.status >= 400

\* the test of line 124
BadStatus(resp) == resp.status # 200

\* how the try block ends: it raised, or it returned the Carrier; tp and
\* pgc are the bindings of the locals total_price and price_after_gc then
Raise(name, link, tp, pgc) ==
    [raised |-> TRUE, carrier |-> Carrier(name, link, <<>>), tp |-> tp,
     pgc |-> pgc]
Return(carrier, tp, pgc) ==
    [raised |-> FALSE, carrier |-> carrier, tp |-> tp, pgc |-> pgc]

\* the locals after lines 129-142, and whether a line raised
Locals(raised, monthly_price, down_payment, tp, pgc) ==
    [raised |-> raised, monthly_price |-> monthly_price,
     down_payment |-> down_payment, tp |-> tp, pgc |-> pgc]

\* line 142, total_price being bound to total
KeepItAfterGc(monthly_price, down_payment, total, after, pgc) ==
    IF Failed(after) THEN Locals(TRUE, monthly_price, down_payment, total, pgc)
    ELSE Locals(FALSE, monthly_price, down_payment, total, after)

\* lines 141-142
KeepItTotal(monthly_price, down_payment, gift_card, total, tp, pgc) ==
    IF Failed(total) THEN Locals(TRUE, monthly_price, down_payment, tp, pgc)
    ELSE KeepItAfterGc(monthly_price, down_payment, total,
                       PriceAfterGc(total, gift_card), pgc)

\* lines 139-142
KeepItBranch(monthly_price, down_payment, gift_card, tp, pgc) ==
    KeepItTotal(monthly_price, down_payment, gift_card,
                TotalPrice(monthly_price, down_payment), tp, pgc)

\* lines 129-142
FirstElement(data, tp, pgc) ==
    IF Failed(Get(data, 1, "type")) \/ Failed(Get(data, 1, "giftCard"))
    THEN Locals(TRUE, NA, NA, tp, pgc)
    ELSE IF Get(data, 1, "type") # PStr("keep-it")
    THEN Locals(FALSE, NA, NA, tp, pgc)
    ELSE KeepItBranch(Get(data, 1, "monthly"), Get(data, 1, "downPayment"),
                      Get(data, 1, "giftCard"), tp, pgc)

\* the locals after lines 144-151; a bib_premium that failed says that a
\* line raised
Bib(bib_premium, bib_monthly, down_return) ==
    [bib_premium |-> bib_premium, bib_monthly |-> bib_monthly,
     down_return |-> down_return]

\* lines 144-151
SecondElement(data, tp) ==
    IF Len(data) <= 1 THEN Bib(NA, NA, NA)
    ELSE IF Failed(Get(data, 2, "type")) THEN Bib(Raised, NA, NA)
    ELSE IF Get(data, 2, "type") # PStr("return-it") THEN Bib(NA, NA, NA)
    ELSE IF \/ Failed(Get(data, 2, "monthly"))
            \/ Failed(Get(data, 2, "residualValue"))
            \/ Failed(Get(data, 2, "downPayment"))
    THEN Bib(Raised, NA, NA)
    ELSE Bib(BibPremium(tp, Get(data, 2, "monthly"), Get(data, 2, "downPayment")),
             Get(data, 2, "monthly"), Get(data, 2, "residualValue"))

\* lines 156-166, the two texts of the Offer being computed
ReturnOffer(data, name, link, k, b, after_gc_text, total_text) ==
    IF Failed(after_gc_text) \/ Failed(total_text)
    THEN Raise(name, link, k.tp, k.pgc)
    ELSE Return(Carrier(name, link,
                    <<Offer(after_gc_text, Get(data, 1, "giftCard"), total_text,
                            k.monthly_price, k.down_payment, b.bib_premium,
                            b.bib_monthly, b.down_return)>>),
                k.tp, k.pgc)

\* lines 156-166
BuildOffer(data, name, link, k, b) ==
    IF Failed(b.bib_premium) THEN Raise(name, link, k.tp, k.pgc)
    ELSE ReturnOffer(data, name, link, k, b, PyStr(k.pgc), Fmt2f(k.tp))

\* lines 144-166, k being the locals after lines 129-142
AfterFirst(data, name, link, k) ==
    IF k.raised THEN Raise(name, link, k.tp, k.pgc)
    ELSE BuildOffer(data, name, link, k, SecondElement(data, k.tp))

\* One pass through the try block (lines 123-166) with the locals
\* total_price = tp and price_after_gc = pgc on entry.  The result says
\* whether the block raised, the Carrier it returned otherwise, and the
\* bindings of the two locals on exit.
TryBlock(resp, name, link, tp, pgc) ==
    IF resp.kind = "exception" THEN Raise(name, link, tp, pgc)
    ELSE IF BadStatus(resp) THEN Return(Carrier(name, link, <<>>), tp, pgc)
    ELSE IF ~resp.json THEN Raise(name, link, tp, pgc)
    ELSE AfterFirst(resp.data, name, link, FirstElement(resp.data, tp, pgc))

\* the loop guard off by one
LoopRunsOnceMore(a) == a <= max_retries + 1

\* the loop guard of line 121
LoopRuns(a) == a <= max_retries

\* the delay taken after every failed attempt
RetrySleepsAlways(a) == a <= max_retries

\* the guard of the retry delay, line 169
RetrySleeps(a) == a < max_retries

\* the return after the loop, lines 178-191
Exhausted(name, link) == Carrier(name, link, <<SentinelOffer>>)

\* how an attempt ended, for the history
Outcome(resp, r) ==
    IF resp.kind = "exception" THEN "transport"
    ELSE IF r.raised THEN "error"
    ELSE IF r.carrier.offers = <<>> THEN "status"
    ELSE "offer"

Idle == Carrier("", <<>>, <<>>)

\* the call at line 121, before its first attempt; outs and slps are the
\* requests and delays made so far
Entry(outs, slps, resp) ==
    [attempt |-> 1, tp |-> Unbound, pgc |-> Unbound, response |-> resp,
     outcomes |-> outs, sleeps |-> slps, done |-> FALSE, carrier |-> Idle]

\* lines 166-172 and 174-191: r is how the try block ended, a1 the value
\* of attempt after it
AfterTry(st, resp, name, link, r, a1) ==
    [attempt |-> a1, tp |-> r.tp, pgc |-> r.pgc, response |-> resp,
     outcomes |-> Append(st.outcomes, Outcome(resp, r)),
     sleeps |-> IF r.raised /\ RetrySleeps(st.attempt)
                THEN Append(st.sleeps, RetryDelay) ELSE st.sleeps,
     done |-> ~r.raised \/ ~LoopRuns(a1),
     carrier |-> IF ~r.raised THEN r.carrier
                 ELSE IF ~LoopRuns(a1) THEN Exhausted(name, link)
                 ELSE st.carrier]

\* line 172: a try block that raised counts the attempt
Attempted(st, resp, name, link, r) ==
    AfterTry(st, resp, name, link, r,
             IF r.raised THEN st.attempt + 1 ELSE st.attempt)

\* One iteration of the while loop (lines 121-172) on the response resp;
\* when the iteration leaves the loop, the return of the call (line 126,
\* line 166 or lines 174-191) is part of it.
Iterate(st, resp, name, link) ==
    Attempted(st, resp, name, link, TryBlock(resp, name, link, st.tp, st.pgc))

\* The loop to its end, resps[a] being what session.get does in attempt a
RECURSIVE RetryLoop(_, _, _, _)
RetryLoop(resps, name, link, st) ==
    IF st.done THEN st
    ELSE RetryLoop(resps, name, link,
                   Iterate(st, resps[st.attempt], name, link))

\* the whole call: the locals at its return, its requests and its delays
FetchRun(resps, u, link, outs, slps, resp) ==
    RetryLoop(resps, extract_carrier_name(u), link, Entry(outs, slps, resp))

\* the Carrier the call returns
scrape_carrier_data(resps, u, link) ==
    FetchRun(resps, u, link, <<>>, <<>>, TransportError).carrier

-----------------------------------------------------------------------------
(* Inputs of the pricing fetch *)

KeepIt == PStr("keep-it")
ReturnIt == PStr("return-it")

\* element 0 of a payload
FirstPlans ==
    { Plan(KeepIt, PFloat(4500), PInt(0), PInt(50), Missing),
      Plan(KeepIt, PInt(45), PInt(100), PInt(0), Missing),
      Plan(KeepIt, PFloat(4550), PFloat(9975), None, Missing),
      Plan(KeepIt, PStr("abc"), PInt(0), PInt(0), Missing),
      Plan(KeepIt, PFloat(4500), PInt(0), PStr("abc"), Missing),
      Plan(KeepIt, PFloat(4500), Missing, PInt(50), Missing),
      Plan(KeepIt, NegZero, NegZero, PInt(0), Missing),
      Plan(KeepIt, PFloat(3006), PInt(0), PInt(0), Missing),
      Plan(KeepIt, PFloat(10), PFloat(20), PInt(0), Missing),
      Plan(PStr("lease"), PFloat(2000), PInt(0), PInt(50), Missing) }

\* element 1 of a payload
SecondPlans ==
    { Plan(ReturnIt, PFloat(3000), PInt(0), PInt(0), PInt(200)),
      Plan(ReturnIt, PInt(30), PInt(0), PInt(0), PInt(200)),
      Plan(ReturnIt, PStr("abc"), PInt(0), PInt(0), PInt(200)),
      Plan(ReturnIt, PFloat(3000), Missing, PInt(0), PInt(200)),
      Plan(ReturnIt, PFloat(5025), PStr("abc"), PInt(0), PInt(200)),
      Plan(ReturnIt, PFloat(5025), PStr(" +1_0.009 "), PInt(0), PInt(200)),
      Plan(ReturnIt, PFloat(0), PInt(0), PInt(0), PInt(200)),
      Plan(PStr("lease"), PFloat(3000), PInt(0), PInt(0), PInt(200)) }

Payloads ==
    {<<>>} \cup {<<p>> : p \in FirstPlans}
           \cup {<<p, q>> : p \in FirstPlans, q \in SecondPlans}

StatusCodes == {200, 201, 204, 404, 500}

\* responses whose body is not a JSON list
PlainResponses == {Http(c) : c \in StatusCodes}

JsonResponses == {Json(d) : d \in Payloads}

\* the product URLs of the fetch check
FetchUrls ==
    { <<"/", "f", "i", "d", "o", "/", "1", "2">>,
      <<"/", "x", "/", "7">> }

-----------------------------------------------------------------------------
(* The pricing fetch, one attempt per step *)

InitCommon ==
    /\ url = <<>>
    /\ carrier_name = ""
    /\ attempt = 0
    /\ total_price = Unbound
    /\ price_after_gc = Unbound
    /\ response = TransportError
    /\ outcomes = <<>>
    /\ sleeps = <<>>
    /\ result = Idle
    /\ phones = <<>>
    /\ carriers = <<>>
    /\ node = 0
    /\ fetched = 0
    /\ rows = <<>>

Init == pc = "call" /\ InitCommon

\* lines 111-119: the call starts
Call ==
    /\ pc = "call"
    /\ \E u \in FetchUrls :
          /\ url' = u
          /\ carrier_name' = extract_carrier_name(u)
    /\ attempt' = 1
    /\ pc' = "loop"
    /\ UNCHANGED <<total_price, price_after_gc, response, outcomes, sleeps,
                   result>>
    /\ UNCHANGED csvVars

\* One iteration of the while loop on the response resp
Iteration(resp) ==
    /\ pc = "loop"
    /\ LoopRuns(attempt)
    /\ \E st \in {Iterate([attempt |-> attempt, tp |-> total_price,
                            pgc |-> price_after_gc, response |-> response,
                            outcomes |-> outcomes, sleeps |-> sleeps,
                            done |-> FALSE, carrier |-> result],
                           resp, carrier_name, url)} :
           /\ attempt' = st.attempt
           /\ total_price' = st.tp
           /\ price_after_gc' = st.pgc
           /\ response' = st.response
           /\ outcomes' = st.outcomes
           /\ sleeps' = st.sleeps
           /\ result' = st.carrier
           /\ pc' = IF st.done THEN "done" ELSE "loop"
    /\ UNCHANGED <<url, carrier_name>>
    /\ UNCHANGED csvVars

\* session.get raises
RequestFails == Iteration(TransportError)

\* session.get returns a response whose body is not a JSON list
RequestAnswered == \E resp \in PlainResponses : Iteration(resp)

\* session.get returns status 200 with a JSON list
RequestPayload == \E resp \in JsonResponses : Iteration(resp)

Next == Call \/ RequestFails \/ RequestAnswered \/ RequestPayload

Spec == Init /\ [][Next]_vars

-----------------------------------------------------------------------------
(* The carrier lookup on generated URLs *)

Fragments ==
    { <<"k", "o", "o", "d", "o">>, <<"K", "O", "O", "D", "O">>,
      <<"K", "o", "o", "d", "o">>, <<"k", "o", "o", "d">>, <<"o">>,
      <<"t", "e", "l", "u", "s">>, <<"T", "e", "l", "u", "s">>,
      <<"f", "i", "d", "o">>, <<"b", "e", "l", "l">>,
      <<"r", "o", "g", "e", "r", "s">>,
      <<"v", "i", "r", "g", "i", "n", "-", "p", "l", "u", "s">>,
      <<"f", "r", "e", "e", "d", "o", "m", "-", "m", "o", "b", "i", "l", "e">>,
      <<"U+212A", "o", "o", "d", "o">>, <<"f", "U+0130", "d", "o">>,
      <<"/">>, <<"x", "1">> }

RECURSIVE UrlsOf(_)
UrlsOf(n) ==
    IF n = 0 THEN {<<>>}
    ELSE UrlsOf(n - 1) \cup {u \o f : u \in UrlsOf(n - 1), f \in Fragments}

NameUrls == UrlsOf(MaxFrags)

InitName ==
    /\ pc = "name"
    /\ InitCommon

\* a caller picks the URL
ChooseUrl ==
    /\ pc = "name"
    /\ url' \in NameUrls
    /\ pc' = "lookup"
    /\ UNCHANGED carrier_name
    /\ UNCHANGED fetchVars
    /\ UNCHANGED csvVars

\* lines 65-79
ExtractCarrierName ==
    /\ pc = "lookup"
    /\ carrier_name' = extract_carrier_name(url)
    /\ pc' = "named"
    /\ UNCHANGED url
    /\ UNCHANGED fetchVars
    /\ UNCHANGED csvVars

NextName == ChooseUrl \/ ExtractCarrierName

SpecName == InitName /\ [][NextName]_vars

-----------------------------------------------------------------------------
(* scrape and write_to_csv *)

\* the report in the order of the lookup table
carrier_order_of_lookup ==
    <<"Telus", "Koodo", "Rogers", "Fido", "Freedom Mobile", "Bell",
      "Virgin Plus">>

carrier_order ==
    <<"Fido", "Rogers", "Virgin Plus", "Bell", "Koodo", "Telus",
      "Freedom Mobile">>

Dash == PStr("--")

Phone(name, cs) == [name |-> name, carriers |-> cs]

\* str.replace on single characters
Replace(text, old, new) ==
    [i \in 1..Len(text) |-> IF text[i] = old THEN new ELSE text[i]]

\* the tag of the i-th phone node of the source document
PhoneTag(i) == <<"P", "_", Digit[i + 1]>>

\* line 207: a dict comprehension, so a later carrier of the same name
\* replaces an earlier one; 0 stands for "name not in carrier_map"
CarrierIndex(cs, name) ==
    LET at == {i \in 1..Len(cs) : cs[i].name = name}
    IN  IF at = {} THEN 0 ELSE CHOOSE i \in at : \A j \in at : j <= i

\* lines 213-225
OfferRow(phone, carrier, offer) ==
    <<phone.name, carrier.name, offer.price_after_gc, offer.gift_card,
      offer.total_price, offer.monthly_price, offer.down_payment,
      offer.bib_premium, offer.bib_monthly, offer.down_return, carrier.link>>

\* lines 227-231
PlaceholderRow(phone, name) ==
    <<phone.name, name, Dash, Dash, Dash, Dash, Dash, Dash, Dash, Dash, Dash>>

\* lines 210-231 for one entry of carrier_order
CarrierRows(phone, name) ==
    LET i == CarrierIndex(phone.carriers, name)
    IN  IF i # 0
        THEN [k \in 1..Len(phone.carriers[i].offers) |->
                 OfferRow(phone, phone.carriers[i], phone.carriers[i].offers[k])]
        ELSE <<PlaceholderRow(phone, name)>>

\* lines 209-231: the rows of one phone, from entry k of carrier_order on
RECURSIVE PhoneRows(_, _)
PhoneRows(phone, k) ==
    IF k > Len(carrier_order) THEN <<>>
    ELSE CarrierRows(phone, carrier_order[k]) \o PhoneRows(phone, k + 1)

\* lines 206-231: the rows of the phones from index p on
RECURSIVE write_to_csv(_, _)
write_to_csv(ps, p) ==
    IF p > Len(ps) THEN <<>>
    ELSE PhoneRows(ps[p], 1) \o write_to_csv(ps, p + 1)

\* the product URLs of a source document
DocUrls ==
    { <<"/", "f", "i", "d", "o", "/", "1">>,
      <<"/", "F", "i", "d", "o", "/", "2">>,
      <<"/", "k", "o", "o", "d", "o", "/", "3">>,
      <<"/", "x", "/", "4">> }

\* what session.get does during one fetch of the scrape
DocFetches ==
    { <<Http(404), TransportError, TransportError>>,
      <<TransportError, TransportError, TransportError>>,
      <<Json(<<Plan(KeepIt, PFloat(4500), PInt(0), PInt(50), Missing)>>),
        TransportError, TransportError>> }

InitCsv ==
    /\ pc = "nodes"
    /\ InitCommon

\* lines 53-55: the loop enters the next phone node
EnterPhoneNode ==
    /\ pc = "nodes"
    /\ node < MaxPhones
    /\ node' = node + 1
    /\ carriers' = <<>>
    /\ pc' = "urls"
    /\ UNCHANGED <<url, carrier_name, phones, fetched, rows>>
    /\ UNCHANGED fetchVars

\* lines 57-59: one url node of the phone node; the call of
\* scrape_carrier_data runs to its return, with its requests and delays
ScrapeUrl ==
    /\ pc = "urls"
    /\ fetched < MaxUrls
    /\ \E u \in DocUrls, resps \in DocFetches :
          \E st \in {FetchRun(resps, u, u, outcomes, sleeps, response)} :
              /\ url' = u
              /\ carrier_name' = extract_carrier_name(u)
              /\ attempt' = st.attempt
              /\ total_price' = st.tp
              /\ price_after_gc' = st.pgc
              /\ response' = st.response
              /\ outcomes' = st.outcomes
              /\ sleeps' = st.sleeps
              /\ result' = st.carrier
              /\ carriers' = Append(carriers, st.carrier)
    /\ fetched' = fetched + 1
    /\ UNCHANGED <<pc, phones, node, rows>>

\* line 61: the phone node has no more url nodes
LeavePhoneNode ==
    /\ pc = "urls"
    /\ phones' = Append(phones, Phone(Replace(PhoneTag(node), "_", " "), carriers))
    /\ pc' = "nodes"
    /\ UNCHANGED <<url, carrier_name, carriers, node, fetched, rows>>
    /\ UNCHANGED fetchVars

\* lines 63 and 236-241: the document has no more phone nodes, scrape
\* returns and main writes the report
WriteToCsv ==
    /\ pc = "nodes"
    /\ rows' = write_to_csv(phones, 1)
    /\ pc' = "written"
    /\ UNCHANGED <<url, carrier_name, phones, carriers, node, fetched>>
    /\ UNCHANGED fetchVars

NextCsv == EnterPhoneNode \/ ScrapeUrl \/ LeavePhoneNode \/ WriteToCsv

SpecCsv == InitCsv /\ [][NextCsv]_vars

-----------------------------------------------------------------------------
(* Properties of the pricing fetch (specification Spec) *)

Last(q) == q[Len(q)]

Failures == {i \in 1..Len(outcomes) : outcomes[i] \in {"transport", "error"}}
AllTransport == \A i \in 1..Len(outcomes) : outcomes[i] = "transport"

\* the call has returned the Offer built by its latest attempt
OfferReturned == pc = "done" /\ Len(outcomes) > 0 /\ Last(outcomes) = "offer"

\* C1: when every attempt raises a transport exception the call issues
\* exactly 3 requests, sleeps the 2-second delay exactly twice (after
\* attempts 1 and 2, not after attempt 3) and returns one Offer whose
\* gift_card is "0" and whose other fields are all "N/A".
C1_TransportFailuresExhaust ==
    AllTransport =>
        /\ sleeps = [i \in 1..Min(Len(outcomes), 2) |-> 2]
        /\ pc = "done" <=> Len(outcomes) = 3
        /\ pc = "done" =>
              /\ Len(result.offers) = 1
              /\ result.offers[1].gift_card = PStr("0")
              /\ \A f \in {"price_after_gc", "total_price", "monthly_price",
                            "down_payment", "bib_premium", "bib_monthly",
                            "down_return"} :
                     result.offers[1][f] = PStr("N/A")

C1_Witness ==
    /\ pc = "done"
    /\ outcomes = <<"transport", "transport", "transport">>
    /\ sleeps = <<2, 2>>
    /\ result.offers = <<SentinelOffer>>

\* C2 as stated: a non-2xx status returns at once an empty offer list and
\* a 2xx status never takes that path.
C2_Non2xxOnlyEmptyOffers ==
    (Len(outcomes) > 0 /\ response.kind = "http") =>
        (Last(outcomes) = "status" <=> response.status \notin 200..299)

\* C2 amended: a status other than 200 is not retried: on whichever attempt
\* it arrives the call returns at once a Carrier with an empty offer list,
\* with no further request and no delay; a response with status 200 never
\* takes this empty-offer path.
C2_Non200ReturnsEmptyOffers ==
    (Len(outcomes) > 0 /\ response.kind = "http") =>
        IF response.status # 200
        THEN /\ pc = "done"
             /\ Last(outcomes) = "status"
             /\ result = [name |-> carrier_name, link |-> url, offers |-> <<>>]
             /\ attempt = Len(outcomes)
             /\ Len(sleeps) = Len(outcomes) - 1
        ELSE /\ Last(outcomes) # "status"
             /\ pc = "done" => Len(result.offers) = 1

C2_Witness ==
    /\ pc = "done"
    /\ outcomes = <<"transport", "transport", "status">>
    /\ response.status = 404
    /\ result.offers = <<>>
    /\ Len(sleeps) = 2

\* element 0 is keep-it with numeric monthly, downPayment and giftCard
C7_Numeric(plan) ==
    /\ plan.type = PStr("keep-it")
    /\ IsNum(plan.monthly) /\ IsNum(plan.downPayment) /\ IsNum(plan.giftCard)

\* monthly * 24 + downPayment
ExpectedTotal(plan) == PyAdd(PyMulInt(plan.monthly, 24), plan.downPayment)

\* the total less a non-zero gift card
ExpectedAfterGc(plan) ==
    IF IsNum(plan.giftCard) /\ ~IsZero(plan.giftCard)
    THEN PySub(ExpectedTotal(plan), plan.giftCard)
    ELSE ExpectedTotal(plan)

\* C7: for a payload whose element 0 is "keep-it" with numeric monthly,
\* downPayment and giftCard, the returned Offer has total price =
\* monthly * 24 + downPayment, and price-after-gift-card = total price -
\* giftCard when the gift card is non-zero, otherwise the total price.
C7_KeepItTotals ==
    (OfferReturned /\ C7_Numeric(response.data[1])) =>
        /\ result.offers[1].total_price = Fmt2f(ExpectedTotal(response.data[1]))
        /\ result.offers[1].price_after_gc
              = PyStr(ExpectedAfterGc(response.data[1]))

C7_Witness ==
    /\ OfferReturned
    /\ response.data = <<Plan(KeepIt, PFloat(4500), PInt(0), PInt(50), Missing)>>
    /\ result.offers[1].total_price = PStr("1080.00")
    /\ result.offers[1].price_after_gc = PStr("1030.0")

IsReturnIt(data) == Len(data) > 1 /\ data[2].type = PStr("return-it")

\* C8: for a payload whose element 0 is a valid "keep-it" plan, bib_premium
\* is total price - bib monthly * 24 - bib downPayment (2 decimals) exactly
\* when element 1 exists, is "return-it" and its monthly is a float, and
\* "N/A" in every other case; bib_monthly and down_return are that
\* element's monthly and residualValue when it is "return-it", else "N/A".
C8_BibFields ==
    (OfferReturned /\ response.data[1].type = PStr("keep-it")) =>
        LET data == response.data
            o == result.offers[1]
        IN  /\ IF IsReturnIt(data) /\ data[2].monthly.t = "float"
               THEN o.bib_premium
                      = Fmt2f(PySub(PySub(ExpectedTotal(data[1]),
                                          PyMulInt(PyFloat(data[2].monthly), 24)),
                                    PyFloat(data[2].downPayment)))
               ELSE o.bib_premium = PStr("N/A")
            /\ o.bib_monthly
                 = IF IsReturnIt(data) THEN data[2].monthly ELSE PStr("N/A")
            /\ o.down_return
                 = IF IsReturnIt(data) THEN data[2].residualValue ELSE PStr("N/A")

C8_Witness ==
    /\ OfferReturned
    /\ response.data = <<Plan(KeepIt, PFloat(4500), PInt(0), PInt(50), Missing),
                         Plan(ReturnIt, PFloat(3000), PInt(0), PInt(0), PInt(200))>>
    /\ result.offers[1].bib_premium = PStr("360.00")
    /\ result.offers[1].bib_monthly = PFloat(3000)
    /\ result.offers[1].down_return = PInt(200)

\* C9: whatever the outcome of each attempt, the call makes at most 3
\* requests and at most 2 delays, always goes on to return (no exception
\* leaves the loop), and returns a Carrier with zero or one Offer; an
\* attempt that fails on the shape of the payload consumes an attempt and
\* a delay exactly as a transport exception does.
C9_BoundedRetries ==
    /\ Len(outcomes) <= 3
    /\ Len(sleeps) <= 2
    /\ pc # "call" =>
          /\ attempt = 1 + Cardinality(Failures)
          /\ Len(sleeps) = Min(Cardinality(Failures), 2)
    /\ pc = "loop" => (Failures = 1..Len(outcomes) /\ Len(outcomes) < 3)
    /\ pc # "done" => ENABLED Next
    /\ pc = "done" =>
          /\ result.name = carrier_name /\ result.link = url
          /\ Len(result.offers) <= 1
          /\ Cardinality(Failures) = 3 => result.offers = <<SentinelOffer>>

C9_Witness ==
    /\ pc = "done"
    /\ outcomes = <<"error", "transport", "error">>
    /\ Len(sleeps) = 2
    /\ result.offers = <<SentinelOffer>>

\* C10: an Offer returned from a successful attempt has total_price and
\* price_after_gc either derived from the payload of that attempt or equal
\* to the sentinel "N/A", never computed in an earlier, failed attempt.
C10_NoStaleTotals ==
    OfferReturned =>
        LET plan == response.data[1]
            o == result.offers[1]
            keep == plan.type = PStr("keep-it")
        IN  /\ \/ o.total_price = PStr("N/A")
               \/ keep /\ o.total_price = Fmt2f(ExpectedTotal(plan))
            /\ \/ o.price_after_gc = PStr("N/A")
               \/ keep /\ o.price_after_gc = PyStr(ExpectedAfterGc(plan))

-----------------------------------------------------------------------------
(* Properties of the carrier lookup (specification SpecName) *)

\* the characters of u with every cased letter in lower case
RECURSIVE Folded(_)
Folded(u) == IF u = <<>> THEN <<>> ELSE LowerChar(Head(u)) \o Folded(Tail(u))

\* w occurs in u, letter case ignored
HasWord(u, w) ==
    \E i \in 0..(Len(Folded(u)) - Len(w)) :
        \A j \in 1..Len(w) : Folded(u)[i + j] = w[j]

HasNoKey(u) == \A k \in 1..Len(CarrierKeys) : ~HasWord(u, CarrierKeys[k])

\* C6 as stated: every URL containing "koodo" in any letter case maps to
\* "Koodo", whatever other carrier substrings it contains; a URL with none
\* of the 7 substrings maps to "Unknown".
C6_KoodoAlways ==
    pc = "named" =>
        /\ HasWord(url, <<"k", "o", "o", "d", "o">>) => carrier_name = "Koodo"
        /\ HasNoKey(url) => carrier_name = "Unknown"

\* C6 amended: every URL containing "koodo" in any letter case and not
\* containing "telus" in any letter case maps to "Koodo", whatever other
\* carrier substrings it contains; a URL with none of the 7 substrings maps
\* to "Unknown".
C6_KoodoUnlessTelus ==
    pc = "named" =>
        /\ (HasWord(url, <<"k", "o", "o", "d", "o">>)
              /\ ~HasWord(url, <<"t", "e", "l", "u", "s">>))
             => carrier_name = "Koodo"
        /\ HasNoKey(url) => carrier_name = "Unknown"

C6_Witness ==
    /\ pc = "named"
    /\ url = <<"K", "O", "O", "D", "O", "f", "i", "d", "o">>
    /\ carrier_name = "Koodo"

-----------------------------------------------------------------------------
(* Properties of the report (specification SpecCsv) *)

CanonicalNames ==
    {"Fido", "Rogers", "Virgin Plus", "Bell", "Koodo", "Telus", "Freedom Mobile"}

\* the rows of the phone at index p of the input list
RowsOf(p) == {i \in 1..Len(rows) : rows[i][1] = phones[p].name}

\* C3: write_to_csv emits exactly 7 data rows for each phone, whatever the
\* number of its carrier URLs and however each fetch ended.
C3_SevenRowsPerPhone ==
    pc = "written" =>
        \A p \in 1..Len(phones) : Cardinality(RowsOf(p)) = 7

\* C4: for every phone and every Carrier of its list with a canonical
\* name, each Offer of that Carrier has a row carrying that Carrier's
\* link, also when several Carriers of the phone have the same name.
C4_EveryOfferHasRow ==
    pc = "written" =>
        \A p \in 1..Len(phones) :
            \A c \in 1..Len(phones[p].carriers) :
                LET carrier == phones[p].carriers[c]
                IN  carrier.name \in CanonicalNames =>
                        \A k \in 1..Len(carrier.offers) :
                            \E i \in RowsOf(p) :
                                /\ rows[i][2] = carrier.name
                                /\ rows[i][3] # Dash
                                /\ rows[i][11] = carrier.link

\* position in the fixed order of the report, 0 for any other name
Rank(name) ==
    CASE name = "Fido" -> 1 [] name = "Rogers" -> 2
      [] name = "Virgin Plus" -> 3 [] name = "Bell" -> 4
      [] name = "Koodo" -> 5 [] name = "Telus" -> 6
      [] name = "Freedom Mobile" -> 7 [] OTHER -> 0

PhoneAt(i) == CHOOSE p \in 1..Len(phones) : phones[p].name = rows[i][1]

UnknownLinks ==
    UNION { {phones[p].carriers[c].link :
                c \in {d \in 1..Len(phones[p].carriers) :
                          phones[p].carriers[d].name = "Unknown"}} :
            p \in 1..Len(phones) }

\* C5: rows are grouped by phone in the order of the input list; within a
\* phone the carrier column follows Fido, Rogers, Virgin Plus, Bell, Koodo,
\* Telus, Freedom Mobile whatever the order of the phone's carrier list;
\* no row has carrier "Unknown" and no row carries an "Unknown" Carrier.
C5_CanonicalOrder ==
    pc = "written" =>
        /\ \A i \in 1..Len(rows) :
              /\ \E p \in 1..Len(phones) : phones[p].name = rows[i][1]
              /\ Rank(rows[i][2]) # 0
              /\ rows[i][3] # Dash => rows[i][11] \notin UnknownLinks
        /\ \A i \in 1..Len(rows) - 1 :
              /\ PhoneAt(i) <= PhoneAt(i + 1)
              /\ PhoneAt(i) = PhoneAt(i + 1)
                   => Rank(rows[i][2]) < Rank(rows[i + 1][2])

C5_Witness ==
    /\ pc = "written"
    /\ Len(phones) = 2
    /\ Len(phones[1].carriers) = 3
    /\ phones[1].carriers[1].name = "Koodo"
    /\ phones[1].carriers[2].name = "Unknown"
    /\ phones[1].carriers[3].name = "Fido"
    /\ \A c \in 1..3 : Len(phones[1].carriers[c].offers) = 1
    /\ Len(rows) = 14
    /\ rows[1][2] = "Fido" /\ rows[1][3] # Dash
    /\ rows[5][2] = "Koodo" /\ rows[5][3] # Dash

=============================================================================
